---------------------------- MODULE Spec2Model ----------------------------
(***************************************************************************)
(* Model of net/configure_wsl_network.py: one invocation of main() is a    *)
(* walk of pc through the blocks of main(), the host routing table is the  *)
(* only state that survives from one invocation to the next.               *)
(*                                                                         *)
(* Texts (Python str) are sequences of one-character strings, so parsing,  *)
(* str(), ' '.join() and the `in` substring test are computed, not assumed.*)
(***************************************************************************)
EXTENDS Integers, Sequences, FiniteSets, TLC

(***************************************************************************)
(* Bounds of the model.                                                    *)
(***************************************************************************)
\* number of invocations of the tool on the same host
MaxRuns == 2

(***************************************************************************)
(* Python values.                                                          *)
(***************************************************************************)
\* the None object where a str is expected: no text equals it, every text
\* is a sequence of ONE-character strings
None == <<"None">>

\* the None object where an int is expected; the int n is <<n>>
NoInt == <<>>

IntVal(n) == <<n>>

\* the bool values, as what a function returned
PyTrue == <<"True">>

PyFalse == <<"False">>

\* truth value of an optional str: `not x` holds for None and for ""
Falsy(x) == x = None \/ x = <<>>

\* truth value of an optional int: `not x` holds for None and for 0
FalsyInt(x) == x = NoInt \/ x = IntVal(0)

Digits == <<"0", "1", "2", "3", "4", "5", "6", "7", "8", "9">>

IsDigit(c) == \E d \in 1..10 : Digits[d] = c

DigitVal(c) == (CHOOSE d \in 1..10 : Digits[d] = c) - 1

AllDigits(s) == Len(s) > 0 /\ \A i \in 1..Len(s) : IsDigit(s[i])

\* int(s) for a text of decimal digits
RECURSIVE DecVal(_)
DecVal(s) ==
    IF Len(s) = 0 THEN 0
    ELSE 10 * DecVal(SubSeq(s, 1, Len(s) - 1)) + DigitVal(s[Len(s)])

\* str(n) for n >= 0
RECURSIVE Str(_)
Str(n) ==
    IF n < 10 THEN <<Digits[n + 1]>>
    ELSE Str(n \div 10) \o <<Digits[(n % 10) + 1]>>

\* s.split(sep) for a one-character separator
RECURSIVE Split(_, _)
Split(s, sep) ==
    IF \A i \in 1..Len(s) : s[i] # sep THEN <<s>>
    ELSE LET k == CHOOSE i \in 1..Len(s) :
                     s[i] = sep /\ \A j \in 1..(i - 1) : s[j] # sep
         IN  <<SubSeq(s, 1, k - 1)>> \o Split(SubSeq(s, k + 1, Len(s)), sep)

\* sep.join(parts)
RECURSIVE Join(_, _)
Join(parts, sep) ==
    IF Len(parts) = 0 THEN <<>>
    ELSE IF Len(parts) = 1 THEN parts[1]
    ELSE parts[1] \o sep \o Join(Tail(parts), sep)

\* variant: the needle is looked for at the start of the line only
Contains_startswith(line, needle) ==
    Len(needle) <= Len(line) /\ SubSeq(line, 1, Len(needle)) = needle

\* `needle in line`
Contains(line, needle) ==
    \E i \in 1..(Len(line) - Len(needle) + 1) :
        SubSeq(line, i, i + Len(needle) - 1) = needle

Dot == <<".">>

Slash == <<"/">>

Space == <<" ">>

\* str() of an IPv4 address given by its four octets
Dotted(o) == Join(<<Str(o[1]), Str(o[2]), Str(o[3]), Str(o[4])>>, Dot)

(***************************************************************************)
(* parse_cidr: ipaddress.IPv4Network(cidr, strict=False), octet by octet   *)
(* (the 32-bit value is kept as four octets).                              *)
(***************************************************************************)
\* one octet of a dotted quad: decimal digits, at most 3, no leading zero,
\* at most 255
OctetOk(t) ==
    /\ AllDigits(t)
    /\ Len(t) <= 3
    /\ (Len(t) > 1 => t[1] # "0")
    /\ DecVal(t) <= 255

IsIPv4(s) ==
    /\ Len(s) > 0
    /\ LET parts == Split(s, ".")
       IN  Len(parts) = 4 /\ \A i \in 1..4 : OctetOk(parts[i])

IPv4Octets(s) == LET parts == Split(s, ".") IN [i \in 1..4 |-> DecVal(parts[i])]

RECURSIVE Pow2(_)
Pow2(n) == IF n = 0 THEN 1 ELSE 2 * Pow2(n - 1)

\* number of network bits of prefix length p that fall into octet i
BitsIn(p, i) ==
    LET b == p - 8 * (i - 1) IN IF b < 0 THEN 0 ELSE IF b > 8 THEN 8 ELSE b

\* the netmask of prefix length p
MaskOctets(p) == [i \in 1..4 |-> 256 - Pow2(8 - BitsIn(p, i))]

\* variant: the host bits are left in the network address
NetworkOctets_hostbits(o, p) == o

\* the address with the host bits of prefix length p cleared
NetworkOctets(o, p) == [i \in 1..4 |-> o[i] - (o[i] % Pow2(8 - BitsIn(p, i)))]

\* variant: the range test of the prefix length is off by one
PrefixOf_upto33(t) ==
    IF AllDigits(t) THEN (IF DecVal(t) <= 33 THEN DecVal(t) ELSE -1) ELSE -1

\* the prefix length named by the text after the slash, -1 when it names
\* none: decimal digits 0..32, else a dotted netmask, else a dotted hostmask
PrefixOf(t) ==
    IF AllDigits(t)
    THEN IF DecVal(t) <= 32 THEN DecVal(t) ELSE -1
    ELSE IF ~IsIPv4(t) THEN -1
    ELSE LET o == IPv4Octets(t)
             asNet == {p \in 0..32 : MaskOctets(p) = o}
             asHost == {p \in 0..32 : \A i \in 1..4 : 255 - MaskOctets(p)[i] = o[i]}
         IN  IF asNet # {} THEN CHOOSE p \in asNet : TRUE
             ELSE IF asHost # {} THEN CHOOSE p \in asHost : TRUE
             ELSE -1

\* the prefix length of a cidr text, -1 when the text raises ValueError
CidrPrefix(cidr) ==
    LET parts == Split(cidr, "/")
    IN  IF Len(parts) > 2 \/ ~IsIPv4(parts[1]) THEN -1
        ELSE IF Len(parts) = 1 THEN 32
        ELSE PrefixOf(parts[2])

CidrValid(cidr) == CidrPrefix(cidr) # -1

\* parse_cidr(cidr) of a valid text: (subnet, mask) as texts
parse_cidr(cidr) ==
    LET o == IPv4Octets(Split(cidr, "/")[1])
        p == CidrPrefix(cidr)
    IN  [subnet |-> Dotted(NetworkOctets(o, p)), mask |-> Dotted(MaskOctets(p))]


\* s.strip() / the pieces of s.split(): blanks and line ends are whitespace
IsWs(c) == c = " " \/ c = "\n"

\* s.split() with no separator: the maximal runs of non-whitespace
RECURSIVE Words(_)
Words(s) ==
    IF Len(s) = 0 THEN <<>>
    ELSE IF IsWs(s[1]) THEN Words(Tail(s))
    ELSE LET stops == {i \in 1..Len(s) : IsWs(s[i])}
             k == IF stops = {} THEN Len(s) + 1
                  ELSE CHOOSE i \in stops : \A j \in stops : i <= j
         IN  <<SubSeq(s, 1, k - 1)>> \o Words(SubSeq(s, k, Len(s)))

\* s.strip()
RECURSIVE Strip(_)
Strip(s) ==
    IF Len(s) = 0 THEN s
    ELSE IF IsWs(s[1]) THEN Strip(Tail(s))
    ELSE IF IsWs(s[Len(s)]) THEN Strip(SubSeq(s, 1, Len(s) - 1))
    ELSE s

(***************************************************************************)
(* The values the environment can supply: command-line arguments, what the *)
(* user types at a prompt, and what the guest and the host answer.         *)
(***************************************************************************)
Cidr(o, p) == Dotted(o) \o Slash \o Str(p)

\* --cidr: absent, a valid text with host bits set, a text with prefix 33
CidrArgs == {None, Cidr(<<172, 16, 5, 37>>, 12), Cidr(<<10, 0, 0, 0>>, 33)}

\* typed at the CIDR prompt: a valid text, a malformed one, just Enter
CidrTyped == {Cidr(<<172, 16, 0, 0>>, 12), <<"not-a-cidr">>, <<>>}

\* `wsl ip -4 addr show eth0`: exit status and the lines of its output
LinkLine == <<"2:", " ", "eth0:", " ", "mtu", " ", "1500">>

InetLine ==
    <<" ", " ", "inet", " ">> \o Cidr(<<172, 16, 0, 1>>, 12)
        \o <<" ", "brd", " ">> \o Dotted(<<172, 31, 255, 255>>)

BareInetLine == <<" ", "inet">>

BadInetLine == <<" ", "inet", " ">> \o Cidr(<<10, 0, 0, 0>>, 33)

GuestAnswers ==
    { [rc |-> 1, lines |-> <<>>],
      [rc |-> 0, lines |-> <<LinkLine>>],
      [rc |-> 0, lines |-> <<LinkLine, BareInetLine>>],
      [rc |-> 0, lines |-> <<LinkLine, BadInetLine>>],
      [rc |-> 0, lines |-> <<LinkLine, InetLine>>] }

ArgGateway == Dotted(<<192, 168, 1, 1>>)

NicGateway == Dotted(<<192, 168, 1, 254>>)

\* --gateway
GatewayArgs == {None, ArgGateway}

\* typed at the gateway prompt: an address, or just Enter
GatewayTyped == {ArgGateway, <<>>}

\* the gateway query: exit status and output
NicAnswers ==
    { [rc |-> 1, stdout |-> <<>>],
      [rc |-> 0, stdout |-> <<"\n">>],
      [rc |-> 0, stdout |-> NicGateway \o <<"\n">>] }

\* --interface-index
IndexArgs == {NoInt, IntVal(0), IntVal(7)}

\* typed at the index prompt: a number, or just Enter
IndexTyped == {Str(7), <<>>}

\* a route of the host table, as the fields of its `route print` line
Route(subnet, mask, gateway, index) ==
    [subnet |-> subnet, mask |-> mask, gateway |-> gateway, index |-> index]

\* routes the host may hold before the tool ever ran: an older route for
\* the guest subnet, an unrelated one, and the very route the tool installs
OldRoute == Route(Dotted(<<172, 16, 0, 0>>), Dotted(<<255, 240, 0, 0>>), NicGateway, Str(3))

OtherRoute == Route(Dotted(<<10, 0, 0, 0>>), Dotted(<<255, 0, 0, 0>>), NicGateway, Str(3))

SameRoute == Route(Dotted(<<172, 16, 0, 0>>), Dotted(<<255, 240, 0, 0>>), ArgGateway, Str(7))

HostRoutes == {OldRoute, OtherRoute, SameRoute}

(***************************************************************************)
(* State.                                                                  *)
(***************************************************************************)
VARIABLES
    table,      \* the host routing table: a set of routes
    run,        \* number of invocations started so far
    pc,         \* the block of main() about to execute; "shell" = not running
    args,       \* the argparse namespace
    subnet,     \* main's local `subnet`
    mask,       \* main's local `mask`
    log,        \* what this invocation did, in order: commands run, prompts, prints
    exit_code,  \* exit status of the invocation, -1 while it runs
    start,      \* the host table when this invocation started
    prev        \* the reconcile of the preceding invocation, if it did one

vars == <<table, run, pc, args, subnet, mask, log, exit_code, start, prev>>

NoArgs == [cidr |-> None, gateway |-> None, interface_index |-> NoInt,
           dry_run |-> FALSE, status |-> FALSE]

NoPrev == [done |-> FALSE, dry_run |-> FALSE, subnet |-> None, mask |-> None,
           gateway |-> None, interface_index |-> NoInt, cmds |-> <<>>,
           rcs |-> <<>>, start |-> {}, end |-> {}]

\* log entries
Ran(id, cmd, rc) == [ev |-> "run", id |-> id, cmd |-> cmd, text |-> <<>>, rc |-> rc]

\* a message printed: which one, and the program values written into it
\* (the captured output of a host command, which some messages append, is
\* the host's own text and is not kept)
Printed(id, text) == [ev |-> "print", id |-> id, cmd |-> <<>>, text |-> text, rc |-> 0]

\* a prompt and what was typed at it
Asked(id, typed) == [ev |-> "input", id |-> id, cmd |-> <<>>, text |-> typed, rc |-> 0]

\* a command run by a function and the value the function returned for it
Returned(id, cmd, rc, value) == [ev |-> "run", id |-> id, cmd |-> cmd, text |-> value, rc |-> rc]

\* the command line of the invocation: --cidr, --gateway, --interface-index
\* as given (None when absent)
Invoked(a) ==
    [ev |-> "argv", id |-> "main",
     cmd |-> <<a.cidr, a.gateway,
               IF a.interface_index = NoInt THEN None ELSE Str(a.interface_index[1])>>,
     text |-> <<>>, rc |-> 0]

Init ==
    /\ table \in SUBSET HostRoutes
    /\ run = 0
    /\ pc = "shell"
    /\ args = NoArgs
    /\ subnet = None
    /\ mask = None
    /\ log = <<>>
    /\ exit_code = -1
    /\ start = table
    /\ prev = NoPrev


(***************************************************************************)
(* The order of the blocks of main(): which block runs next.               *)
(***************************************************************************)
\* variant: with a gateway at hand main goes straight to the add
AfterIndex_nodelete(a) ==
    IF Falsy(a.gateway) THEN "get_gateway_from_nic" ELSE "add_static_route"

\* variant: the gateway is looked up whether or not --gateway was given
AfterIndex_lookup(a) == "get_gateway_from_nic"

AfterIndex(a) ==
    IF Falsy(a.gateway) THEN "get_gateway_from_nic" ELSE "delete_existing_route"

AfterStatus(a) ==
    IF FalsyInt(a.interface_index) THEN "get_network_adapters" ELSE AfterIndex(a)

\* variant: --status is not looked at
AfterParse_nostatus(a) == AfterStatus(a)

AfterParse(a) == IF a.status THEN "check_route_status" ELSE AfterStatus(a)

\* variant: the guest is asked whether or not --cidr was given
AfterArgs_always(a) == "get_wsl_ip_cidr"

AfterArgs(a) == IF Falsy(a.cidr) THEN "get_wsl_ip_cidr" ELSE "parse_cidr"

\* the commands of a finished reconcile, as texts: those run (live) or
\* those shown (dry run)
IsCommand(e) == e.id \in {"route_delete", "route_add", "dry_delete", "dry_add"}

CommandText(e) == IF e.ev = "run" THEN Join(e.cmd, Space) ELSE e.text

Commands(l) ==
    LET c == SelectSeq(l, IsCommand) IN [i \in 1..Len(c) |-> CommandText(c[i])]

IsMutation(e) == e.ev = "run" /\ e.id \in {"route_delete", "route_add"}

Mutations(l) == SelectSeq(l, IsMutation)

ReturnCodes(l) == [i \in 1..Len(Mutations(l)) |-> Mutations(l)[i].rc]

Reconciled(l) == \E i \in 1..Len(l) : l[i].id \in {"route_add", "dry_add"}

\* what the next invocation remembers of this one
Summary ==
    IF Reconciled(log)
    THEN [done |-> TRUE, dry_run |-> args.dry_run, subnet |-> subnet, mask |-> mask,
          gateway |-> args.gateway, interface_index |-> args.interface_index,
          cmds |-> Commands(log), rcs |-> ReturnCodes(log),
          start |-> start, end |-> table]
    ELSE NoPrev

(***************************************************************************)
(* main(): argument parsing, the start of an invocation.                   *)
(***************************************************************************)
Invoke ==
    /\ pc = "shell"
    /\ run < MaxRuns
    /\ \E c \in CidrArgs, g \in GatewayArgs, i \in IndexArgs, d \in BOOLEAN, st \in BOOLEAN :
        LET a == [cidr |-> c, gateway |-> g, interface_index |-> i,
                  dry_run |-> d, status |-> st]
        IN  /\ args' = a
            /\ log' = <<Invoked(a)>>
            /\ pc' = AfterArgs(a)
    /\ run' = run + 1
    /\ start' = table
    /\ UNCHANGED <<table, subnet, mask, exit_code, prev>>

\* the process is gone: nothing of it is left but what it did to the host
ProcessExit ==
    /\ pc = "exited"
    /\ pc' = "shell"
    /\ prev' = Summary
    /\ args' = NoArgs
    /\ subnet' = None
    /\ mask' = None
    /\ log' = <<>>
    /\ exit_code' = -1
    /\ start' = table
    /\ UNCHANGED <<table, run>>

(***************************************************************************)
(* get_wsl_ip_cidr and the fallback decision of main.                      *)
(***************************************************************************)
WslCmd == <<<<"wsl">>, <<"ip">>, <<"-4">>, <<"addr">>, <<"show">>, <<"eth0">>>>

\* the value get_wsl_ip_cidr returns for an answer of the guest
GuestCidr(ans) ==
    IF ans.rc # 0 THEN None
    ELSE LET hits == {i \in 1..Len(ans.lines) : Contains(ans.lines[i], <<"inet">>)}
         IN  IF hits = {} THEN None
             ELSE LET first == CHOOSE i \in hits : \A j \in hits : i <= j
                      words == Words(ans.lines[first])
                  IN  IF Len(words) < 2 THEN None ELSE words[2]

get_wsl_ip_cidr ==
    /\ pc = "get_wsl_ip_cidr"
    /\ \E ans \in GuestAnswers :
        LET cidr == GuestCidr(ans)
        IN  /\ args' = [args EXCEPT !.cidr = cidr]
            /\ log' = log \o <<Returned("wsl_ip", WslCmd, ans.rc, cidr)>>
                          \o (IF cidr = None THEN <<Printed("no_guest_cidr", <<>>)>> ELSE <<>>)
            /\ pc' = IF Falsy(cidr) THEN "input_cidr" ELSE "parse_cidr"
    /\ UNCHANGED <<table, run, subnet, mask, exit_code, start, prev>>

input_cidr ==
    /\ pc = "input_cidr"
    /\ \E typed \in CidrTyped :
          /\ args' = [args EXCEPT !.cidr = typed]
          /\ log' = Append(log, Asked("cidr", typed))
    /\ pc' = "parse_cidr"
    /\ UNCHANGED <<table, run, subnet, mask, exit_code, start, prev>>

(***************************************************************************)
(* parse_cidr as main calls it: a ValueError prints and exits with 1.      *)
(***************************************************************************)
ParseCidr ==
    /\ pc = "parse_cidr"
    /\ IF CidrValid(args.cidr)
       THEN /\ subnet' = parse_cidr(args.cidr).subnet
            /\ mask' = parse_cidr(args.cidr).mask
            /\ pc' = AfterParse(args)
            /\ UNCHANGED <<log, exit_code>>
       ELSE /\ log' = Append(log, Printed("invalid_cidr", args.cidr))
            /\ exit_code' = 1
            /\ pc' = "exited"
            /\ UNCHANGED <<subnet, mask>>
    /\ UNCHANGED <<table, run, args, start, prev>>

(***************************************************************************)
(* check_route_status: `route print`, then a substring test per line.      *)
(***************************************************************************)
RoutePrintCmd == <<<<"route">>, <<"print">>>>

\* the line `route print` shows for a route
RouteLine(r) == Join(<<r.subnet, r.mask, r.gateway, r.index>>, Space)

RouteLines(t) == {RouteLine(r) : r \in t}

check_route_status ==
    /\ pc = "check_route_status"
    /\ \E rc \in {0, 1} :
        LET hits == {l \in RouteLines(table) : Contains(l, subnet)}
        IN  IF rc # 0
            THEN log' = log \o <<Returned("route_print", RoutePrintCmd, rc, PyFalse),
                                 Printed("route_query_failed", <<>>)>>
            ELSE IF hits = {}
            THEN log' = log \o <<Returned("route_print", RoutePrintCmd, rc, PyFalse),
                                 Printed("no_route", subnet)>>
            ELSE \E l \in hits :
                    log' = log \o <<Returned("route_print", RoutePrintCmd, rc, PyTrue),
                                    Printed("route_exists", Strip(l))>>
    /\ exit_code' = 0
    /\ pc' = "exited"
    /\ UNCHANGED <<table, run, args, subnet, mask, start, prev>>


(***************************************************************************)
(* Adapter index: get_network_adapters, then int(input(...)).              *)
(***************************************************************************)
AdaptersCmd == <<<<"powershell">>, <<"-Command">>, <<"Get-NetIPConfiguration">>>>

get_network_adapters ==
    /\ pc = "get_network_adapters"
    /\ \E rc \in {0, 1} :
        log' = log \o <<Printed("available_adapters", <<>>),
                        Ran("get_adapters", AdaptersCmd, rc),
                        Printed(IF rc = 0 THEN "adapter_list" ELSE "adapters_failed", <<>>)>>
    /\ pc' = "input_index"
    /\ UNCHANGED <<table, run, args, subnet, mask, exit_code, start, prev>>

\* int(input(...)): text that is not a number raises ValueError, which
\* main does not catch: traceback, exit status 1
input_index ==
    /\ pc = "input_index"
    /\ \E typed \in IndexTyped :
        IF AllDigits(typed)
        THEN LET a == [args EXCEPT !.interface_index = IntVal(DecVal(typed))]
             IN  /\ args' = a
                 /\ log' = Append(log, Asked("index", typed))
                 /\ pc' = AfterIndex(a)
                 /\ UNCHANGED exit_code
        ELSE /\ log' = log \o <<Asked("index", typed), Printed("traceback", typed)>>
             /\ exit_code' = 1
             /\ pc' = "exited"
             /\ UNCHANGED args
    /\ UNCHANGED <<table, run, subnet, mask, start, prev>>

(***************************************************************************)
(* Gateway: get_gateway_from_nic, then input(...) when it found none.      *)
(***************************************************************************)
GatewayCmd(index) ==
    <<<<"powershell">>, <<"-Command">>, <<"InterfaceIndex", "-eq">>, Str(index[1])>>

\* the value get_gateway_from_nic returns for an answer of the host
NicGatewayOf(ans) ==
    IF ans.rc = 0 /\ Strip(ans.stdout) # <<>> THEN Strip(ans.stdout) ELSE None

get_gateway_from_nic ==
    /\ pc = "get_gateway_from_nic"
    /\ \E ans \in NicAnswers :
        LET gateway == NicGatewayOf(ans)
        IN  /\ args' = [args EXCEPT !.gateway = gateway]
            /\ log' = log \o <<Returned("get_gateway", GatewayCmd(args.interface_index),
                                      ans.rc, gateway)>>
                          \o (IF gateway = None
                              THEN <<Printed(IF ans.rc = 0 THEN "no_gateway" ELSE "gateway_failed",
                                             Str(args.interface_index[1]))>>
                              ELSE <<>>)
            /\ pc' = IF Falsy(gateway) THEN "input_gateway" ELSE "delete_existing_route"
    /\ UNCHANGED <<table, run, subnet, mask, exit_code, start, prev>>

input_gateway ==
    /\ pc = "input_gateway"
    /\ \E typed \in GatewayTyped :
          /\ args' = [args EXCEPT !.gateway = typed]
          /\ log' = log \o <<Printed("unable_gateway", <<>>), Asked("gateway", typed)>>
    /\ pc' = "delete_existing_route"
    /\ UNCHANGED <<table, run, subnet, mask, exit_code, start, prev>>

(***************************************************************************)
(* delete_existing_route.  The host's `route delete <subnet>` either       *)
(* returns 0, and then no route to <subnet> is left, or returns non-zero   *)
(* (nothing to delete, or the command failed) and leaves the table alone.  *)
(***************************************************************************)
\* variant: the preview drops the last argument of the command
Preview_short(cmd) == Join(SubSeq(cmd, 1, Len(cmd) - 1), Space)

\* the text a dry run shows for a command: ' '.join(cmd)
Preview(cmd) == Join(cmd, Space)

\* variant: the delete names the default route instead of the subnet
DeleteCmd_default(sn) == <<<<"route">>, <<"delete">>, Dotted(<<0, 0, 0, 0>>)>>

\* variant: the delete names the mask keyword instead of the subnet
DeleteCmd_keyword(sn) == <<<<"route">>, <<"delete">>, <<"MASK">>>>

DeleteCmd(sn) == <<<<"route">>, <<"delete">>, sn>>

\* variant: a delete that did not return 0 ends the invocation
AfterDelete_abort(rc) == IF rc = 0 THEN "add_static_route" ELSE "exited"

\* variant: after a delete that did not return 0 the gateway is asked again
AfterDelete_reprompt(rc) == IF rc = 0 THEN "add_static_route" ELSE "input_gateway"

\* main goes on to add_static_route whatever delete_existing_route met
AfterDelete(rc) == "add_static_route"

\* variant: the delete does not look at dry_run
delete_existing_route_live ==
    /\ pc = "delete_existing_route"
    /\ \E rc \in {0, 1} :
          /\ table' = IF rc = 0 THEN {r \in table : r.subnet # subnet} ELSE table
          /\ log' = Append(log, Ran("route_delete", DeleteCmd(subnet), rc))
    /\ pc' = "add_static_route"
    /\ UNCHANGED <<run, args, subnet, mask, exit_code, start, prev>>

delete_existing_route ==
    /\ pc = "delete_existing_route"
    /\ LET cmd == DeleteCmd(subnet)
       IN  IF args.dry_run
           THEN /\ log' = Append(log, Printed("dry_delete", Preview(cmd)))
                /\ pc' = AfterDelete(0)
                /\ UNCHANGED table
           ELSE \E rc \in {0, 1} :
                  /\ IF rc = 0
                     THEN /\ table' = {r \in table : r.subnet # cmd[3]}
                          /\ log' = log \o <<Ran("route_delete", cmd, rc),
                                             Printed("deleted", subnet)>>
                     ELSE /\ UNCHANGED table
                          /\ log' = log \o <<Ran("route_delete", cmd, rc),
                                             Printed("not_found_or_failed", subnet)>>
                  /\ pc' = AfterDelete(rc)
    /\ UNCHANGED <<run, args, subnet, mask, exit_code, start, prev>>

(***************************************************************************)
(* add_static_route.  The host's `route add` either returns 0, and then    *)
(* the route is in the table, or returns non-zero and leaves the table     *)
(* alone; it never accepts a gateway that is not an address.               *)
(***************************************************************************)
\* variant: mask and gateway change places on the command line
AddCmd_swapped(sn, mk, gateway, index) ==
    <<<<"route">>, <<"add">>, sn, <<"MASK">>, gateway, mk, <<"IF">>, Str(index[1])>>

AddCmd(sn, mk, gateway, index) ==
    <<<<"route">>, <<"add">>, sn, <<"MASK">>, mk, gateway, <<"IF">>, Str(index[1])>>

\* variant: a failed add is tried again
AfterAdd_retry(rc) == IF rc = 0 THEN "exited" ELSE "add_static_route"

\* add_static_route returns and main ends, whatever `route add` met
AfterAdd(rc) == "exited"

\* variant: the outcome of `route add` is not looked at
AddReport_same(rc) == Printed("added", <<>>)

\* what add_static_route prints after `route add`: one of two fixed
\* messages, each followed by the host's output only
AddReport(rc) == Printed(IF rc = 0 THEN "added" ELSE "add_failed", <<>>)

add_static_route ==
    /\ pc = "add_static_route"
    /\ LET cmd == AddCmd(subnet, mask, args.gateway, args.interface_index)
       IN  IF args.dry_run
           THEN /\ log' = Append(log, Printed("dry_add", Preview(cmd)))
                /\ pc' = AfterAdd(0)
                /\ UNCHANGED table
           ELSE \E rc \in {0, 1} :
                  /\ IF rc = 0
                     THEN /\ IsIPv4(cmd[6])
                          /\ table' = table \cup {Route(cmd[3], cmd[5], cmd[6], cmd[8])}
                     ELSE UNCHANGED table
                  /\ log' = log \o <<Ran("route_add", cmd, rc), AddReport(rc)>>
                  /\ pc' = AfterAdd(rc)
    /\ exit_code' = 0
    /\ UNCHANGED <<run, args, subnet, mask, start, prev>>

(***************************************************************************)
(* except KeyboardInterrupt: Ctrl-C anywhere inside the try block.         *)
(***************************************************************************)
KeyboardInterrupt ==
    /\ pc \notin {"shell", "exited"}
    /\ log' = Append(log, Printed("cancelled", <<>>))
    /\ exit_code' = 0
    /\ pc' = "exited"
    /\ UNCHANGED <<table, run, args, subnet, mask, start, prev>>

Next ==
    \/ Invoke
    \/ ProcessExit
    \/ get_wsl_ip_cidr
    \/ input_cidr
    \/ ParseCidr
    \/ check_route_status
    \/ get_network_adapters
    \/ input_index
    \/ get_gateway_from_nic
    \/ input_gateway
    \/ delete_existing_route
    \/ add_static_route
    \/ KeyboardInterrupt

Spec == Init /\ [][Next]_vars


(***************************************************************************)
(* Properties.                                                             *)
(***************************************************************************)
HasRun(id) == \E i \in 1..Len(log) : log[i].ev = "run" /\ log[i].id = id

HasPrint(id) == \E i \in 1..Len(log) : log[i].ev = "print" /\ log[i].id = id

HasInput(id) == \E i \in 1..Len(log) : log[i].ev = "input" /\ log[i].id = id

IsPreview(e) == e.ev = "print" /\ e.id \in {"dry_delete", "dry_add"}

PreviewIds == LET p == SelectSeq(log, IsPreview) IN [i \in 1..Len(p) |-> p[i].id]

MutationIds == [i \in 1..Len(Mutations(log)) |-> Mutations(log)[i].id]

RoutesTo(t, sn) == {r \in t : r.subnet = sn}

RoutesElsewhere(t, sn) == {r \in t : r.subnet # sn}

\* the RouteSpec of the running invocation
RouteSpec == Route(subnet, mask, args.gateway, Str(args.interface_index[1]))

\* C1: a dry run never runs `route delete` or `route add`, leaves the host
\* table as it found it, and shows exactly two previews: the delete first,
\* the add second.
C1_DryRunOnlyPreviews ==
    args.dry_run =>
        /\ Mutations(log) = <<>>
        /\ table = start
        /\ PreviewIds \in {<<>>, <<"dry_delete">>, <<"dry_delete", "dry_add">>}
        /\ (pc = "add_static_route" => PreviewIds = <<"dry_delete">>)
        /\ (Reconciled(log) => PreviewIds = <<"dry_delete", "dry_add">>)

C1_Witness ==
    /\ pc = "exited"
    /\ args.dry_run
    /\ PreviewIds = <<"dry_delete", "dry_add">>
    /\ RoutesTo(start, subnet) # {}

\* C2: in a live invocation `route delete <subnet>` has run and returned
\* before `route add <subnet> ...` is run; the add never comes first and
\* never comes without the delete.
C2_DeleteBeforeAdd ==
    ~args.dry_run =>
        /\ MutationIds \in {<<>>, <<"route_delete">>, <<"route_delete", "route_add">>}
        /\ \A i \in 1..Len(Mutations(log)) : Mutations(log)[i].cmd[3] = subnet
        /\ (pc = "add_static_route" => MutationIds = <<"route_delete">>)

C2_Witness ==
    /\ pc = "exited"
    /\ ~args.dry_run
    /\ MutationIds = <<"route_delete", "route_add">>

\* C3: after a live reconcile whose delete and add both returned 0, the
\* host table holds exactly one route to the subnet, that route is the
\* RouteSpec (subnet, mask, gateway, adapter index), and the routes to
\* other destinations are those of the table it started from.
C3_ExactlyTheRouteSpec ==
    (pc = "exited" /\ ~args.dry_run /\ ReturnCodes(log) = <<0, 0>>) =>
        /\ RoutesTo(table, subnet) = {RouteSpec}
        /\ RoutesElsewhere(table, subnet) = RoutesElsewhere(start, subnet)

C3_Witness ==
    /\ pc = "exited"
    /\ ~args.dry_run
    /\ ReturnCodes(log) = <<0, 0>>
    /\ start = {OldRoute, OtherRoute}
    /\ table = {RouteSpec, OtherRoute}

\* texts that are not an address/prefix with a prefix length in 0..32
MalformedTexts == {Cidr(<<10, 0, 0, 0>>, 33), <<"not-a-cidr">>, <<>>}

\* parse_cidr was called in this invocation
ParseCalled == subnet # None \/ HasPrint("invalid_cidr")

\* C4: when the CIDR text handed to the parser is malformed, the invocation
\* reports an invalid CIDR and ends with a non-zero exit status, having run
\* no route delete, no route add, no adapter listing and no gateway query.
C4_MalformedCidrIsFatal ==
    (args.cidr \in MalformedTexts /\ ParseCalled) =>
        /\ pc = "exited"
        /\ exit_code # 0
        /\ log[Len(log)] = Printed("invalid_cidr", args.cidr)
        /\ ~HasRun("route_delete") /\ ~HasRun("route_add")
        /\ ~HasRun("get_adapters") /\ ~HasRun("get_gateway")
        /\ table = start

C4_Witness ==
    /\ pc = "exited"
    /\ exit_code = 1
    /\ args.cidr = Cidr(<<10, 0, 0, 0>>, 33)
    /\ HasPrint("invalid_cidr")
    /\ ~args.status

\* C5: with --status set, whatever the other flags and the host table, the
\* invocation lists no adapters, queries no gateway, asks for no index and
\* no gateway, runs no route delete and no route add, and leaves the table
\* as it found it; once the CIDR is parsed the only thing left is the check.
C5_StatusOnlyInspects ==
    args.status =>
        /\ ~HasRun("get_adapters") /\ ~HasRun("get_gateway")
        /\ ~HasInput("index") /\ ~HasInput("gateway")
        /\ ~HasRun("route_delete") /\ ~HasRun("route_add")
        /\ ~HasPrint("dry_delete") /\ ~HasPrint("dry_add")
        /\ table = start
        /\ (subnet # None => pc \in {"check_route_status", "exited"})

C5_Witness ==
    /\ pc = "exited"
    /\ args.status
    /\ HasRun("route_print")
    /\ HasPrint("route_exists")
    /\ ~args.dry_run
    /\ FalsyInt(args.interface_index)
    /\ Falsy(args.gateway)


\* C6: no route delete and no route add is run unless the adapter index and
\* the gateway are both concrete; an invocation left with an empty gateway
\* (or without an index) stops before the reconcile, table untouched.
C6_NothingRunsUnresolved ==
    (Falsy(args.gateway) \/ FalsyInt(args.interface_index)) =>
        /\ Mutations(log) = <<>>
        /\ table = start

\* C7: in a live reconcile whose delete returned 0 and whose add did not,
\* the failure of the add is reported, the invocation is over with one
\* delete and one add run (no second add, nothing put back), and the host
\* table holds no route to the subnet.
C7_FailedAddIsTerminal ==
    LET rcs == ReturnCodes(log)
    IN  (~args.dry_run /\ Len(rcs) >= 2 /\ rcs[1] = 0 /\ rcs[2] # 0) =>
            /\ pc = "exited"
            /\ MutationIds = <<"route_delete", "route_add">>
            /\ log[Len(log)] = Printed("add_failed", <<>>)
            /\ RoutesTo(table, subnet) = {}
            /\ RoutesElsewhere(table, subnet) = RoutesElsewhere(start, subnet)

C7_Witness ==
    /\ pc = "exited"
    /\ ~args.dry_run
    /\ ReturnCodes(log) = <<0, 1>>
    /\ OldRoute \in start
    /\ RoutesTo(table, subnet) = {}
    /\ IsIPv4(args.gateway)

\* the invocation got as far as the add, or was interrupted on the way
AddReachedAfter(i) ==
    \/ pc = "add_static_route"
    \/ (Len(log) > i + 1 /\ log[i + 2].id \in {"route_add", "cancelled"})

\* C8 as stated: with no route to the subnet beforehand, the live delete
\* step reports nothing about a failed deletion, and the add is attempted.
C8_AbsenceIsSilent ==
    (~args.dry_run /\ HasRun("route_delete") /\ RoutesTo(start, subnet) = {}) =>
        /\ ~HasPrint("not_found_or_failed")
        /\ \E i \in 1..Len(log) : log[i].id = "route_delete" /\ AddReachedAfter(i)

\* C8 amended: the live delete step always hands over to the add step,
\* whatever `route delete` returned; it prints the "deleted" message when
\* the command returned 0 and the "no existing route found or failed to
\* delete" notice when it did not, also when there was nothing to delete.
C8_DeleteNeverBlocksAdd ==
    \A i \in 1..Len(log) :
        (log[i].ev = "run" /\ log[i].id = "route_delete") =>
            /\ Len(log) > i
            /\ log[i + 1] = Printed(IF log[i].rc = 0 THEN "deleted" ELSE "not_found_or_failed",
                                    subnet)
            /\ AddReachedAfter(i)

C8_Witness ==
    /\ ~args.dry_run
    /\ RoutesTo(start, subnet) = {}
    /\ HasPrint("not_found_or_failed")
    /\ HasRun("route_add")
    /\ pc = "exited"

\* the two commands of a reconcile, word for word
ExpectedCommands(sn, mk, gateway, index) ==
    << Join(<<<<"route">>, <<"delete">>, sn>>, Space),
       Join(<<<<"route">>, <<"add">>, sn, <<"MASK">>, mk, gateway, <<"IF">>, Str(index[1])>>,
            Space) >>

SameInputs ==
    /\ prev.subnet = subnet
    /\ prev.mask = mask
    /\ prev.gateway = args.gateway
    /\ prev.interface_index = args.interface_index

\* C9: the commands a dry run shows are, one for one and in order, the
\* commands a live run with the same subnet, mask, gateway and index runs:
\* route delete <subnet>, then route add <subnet> MASK <mask> <gateway> IF
\* <index>.
C9_PreviewIsTheLiveCommands ==
    (pc = "exited" /\ Reconciled(log)) =>
        /\ Commands(log) = ExpectedCommands(subnet, mask, args.gateway, args.interface_index)
        /\ (prev.done /\ prev.dry_run # args.dry_run /\ SameInputs) => Commands(log) = prev.cmds

C9_Witness ==
    /\ pc = "exited"
    /\ ~args.dry_run
    /\ MutationIds = <<"route_delete", "route_add">>
    /\ prev.done
    /\ prev.dry_run
    /\ SameInputs
    /\ Len(prev.cmds) = 2
    /\ Commands(log) = prev.cmds

\* C10: a live reconcile whose delete and add return 0, run after an
\* earlier live reconcile with the same arguments that either succeeded or
\* stopped with the delete done and the add failed, ends with the table a
\* single successful reconcile makes of the original table: the other
\* destinations as they were, and exactly one route to the subnet, the
\* RouteSpec.
C10_RerunIsIdempotent ==
    ( /\ pc = "exited"
      /\ ~args.dry_run
      /\ ReturnCodes(log) = <<0, 0>>
      /\ prev.done
      /\ ~prev.dry_run
      /\ SameInputs
      /\ prev.rcs \in {<<0, 0>>, <<0, 1>>} ) =>
        /\ table = RoutesElsewhere(prev.start, subnet) \cup {RouteSpec}
        /\ Cardinality(RoutesTo(table, subnet)) = 1
        /\ (prev.rcs = <<0, 0>> => table = prev.end)

C10_Witness ==
    /\ pc = "exited"
    /\ ~args.dry_run
    /\ ReturnCodes(log) = <<0, 0>>
    /\ prev.done
    /\ ~prev.dry_run
    /\ SameInputs
    /\ prev.rcs = <<0, 1>>
    /\ prev.start = {OldRoute, OtherRoute}
    /\ prev.end = {OtherRoute}
    /\ table = {OtherRoute, RouteSpec}


(***************************************************************************)
(* parse_cidr on its own: main about to parse one address/prefix text,     *)
(* for addresses with and without host bits and prefix lengths in and      *)
(* beyond 0..32.                                                           *)
(***************************************************************************)
\* largest prefix length tried
MaxPrefixTried == 34

Addresses ==
    {<<a, b, c, d>> : a \in {172, 255}, b \in {16, 37, 255},
                      c \in {0, 5, 255}, d \in {1, 37, 255}}

PrefixesTried == (-1)..MaxPrefixTried

\* the text address/prefix as a user writes it
CidrText(a, p) == Dotted(a) \o Slash \o (IF p < 0 THEN <<"-">> \o Str(0 - p) ELSE Str(p))

CidrTexts == [x \in Addresses \X PrefixesTried |-> CidrText(x[1], x[2])]

InitParse ==
    /\ table = {}
    /\ run = 1
    /\ pc = "parse_cidr"
    /\ \E x \in Addresses \X PrefixesTried : args = [NoArgs EXCEPT !.cidr = CidrTexts[x]]
    /\ subnet = None
    /\ mask = None
    /\ log = <<>>
    /\ exit_code = -1
    /\ start = table
    /\ prev = NoPrev

NextParse == ParseCidr

SpecParse == InitParse /\ [][NextParse]_vars

\* an address as 32 bits, most significant first
Weights == <<128, 64, 32, 16, 8, 4, 2, 1>>

Bits32(a) == [i \in 1..32 |-> (a[((i - 1) \div 8) + 1] \div Weights[((i - 1) % 8) + 1]) % 2]

RECURSIVE BitSum(_, _, _)
BitSum(b, k, i) ==
    IF i > 8 THEN 0 ELSE b[8 * (k - 1) + i] * Weights[i] + BitSum(b, k, i + 1)

OctetsOfBits(b) == [k \in 1..4 |-> BitSum(b, k, 1)]

\* a with its low 32-p bits zeroed
LowBitsZeroed(a, p) == OctetsOfBits([i \in 1..32 |-> IF i <= p THEN Bits32(a)[i] ELSE 0])

\* the 32-bit value with the top p bits set and the rest clear
TopBitsSet(p) == OctetsOfBits([i \in 1..32 |-> IF i <= p THEN 1 ELSE 0])

\* C11: for every address a and prefix length p in 0..32 parsing a/p gives
\* subnet = a with its low 32-p bits zeroed and mask = the top p bits set;
\* a prefix length outside 0..32 is rejected as an invalid CIDR (exit 1).
C11_NetworkAndMaskFromPrefix ==
    \A x \in Addresses \X PrefixesTried :
        (args.cidr = CidrTexts[x] /\ pc # "parse_cidr") =>
            IF x[2] \in 0..32
            THEN /\ subnet = Dotted(LowBitsZeroed(x[1], x[2]))
                 /\ mask = Dotted(TopBitsSet(x[2]))
                 /\ pc # "exited"
                 /\ log = <<>>
            ELSE /\ pc = "exited"
                 /\ exit_code = 1
                 /\ log = <<Printed("invalid_cidr", args.cidr)>>
                 /\ subnet = None
                 /\ mask = None

\* 172.37.5.37/12 gives 172.32.0.0 and 255.240.0.0
C11_Witness ==
    /\ args.cidr = CidrText(<<172, 37, 5, 37>>, 12)
    /\ subnet = Dotted(<<172, 32, 0, 0>>)
    /\ mask = Dotted(<<255, 240, 0, 0>>)
    /\ pc = "get_network_adapters"


(***************************************************************************)
(* Resolution order of the inputs.                                         *)
(***************************************************************************)
\* positions of the log entries of one kind
RunsAt(id) == {i \in 1..Len(log) : log[i].ev = "run" /\ log[i].id = id}

InputsAt(id) == {i \in 1..Len(log) : log[i].ev = "input" /\ log[i].id = id}

Interrupted == HasPrint("cancelled")

\* the arguments as given on the command line
GivenCidr == log[1].cmd[1]

GivenGateway == log[1].cmd[2]

GivenIndex == log[1].cmd[3]

\* the CIDR resolution is over: parse_cidr is next or was called
CidrResolved == pc = "parse_cidr" \/ ParseCalled

\* C12: the CIDR comes from the explicit argument, else from the guest
\* query, else from the prompt, each tried at most once and in that order:
\* the guest is queried only when no --cidr was given, the prompt appears
\* only after a guest query that found nothing, and the text parsed is that
\* of the first source that gave one.
C12_CidrSourcesInOrder ==
    pc # "shell" =>
        /\ Cardinality(RunsAt("wsl_ip")) <= 1
        /\ Cardinality(InputsAt("cidr")) <= 1
        /\ (RunsAt("wsl_ip") # {} => Falsy(GivenCidr))
        /\ \A i \in InputsAt("cidr") :
              \E q \in RunsAt("wsl_ip") : q < i /\ log[q].text = None
        /\ CidrResolved =>
              /\ (~Falsy(GivenCidr) => args.cidr = GivenCidr /\ InputsAt("cidr") = {})
              /\ (Falsy(GivenCidr) => RunsAt("wsl_ip") # {})
              /\ \A q \in RunsAt("wsl_ip") :
                    IF log[q].text # None
                    THEN args.cidr = log[q].text /\ InputsAt("cidr") = {}
                    ELSE \E i \in InputsAt("cidr") : args.cidr = log[i].text
              /\ (subnet # None => subnet = parse_cidr(args.cidr).subnet)

C12_Witness ==
    /\ pc = "exited"
    /\ GivenCidr = None
    /\ \E q \in RunsAt("wsl_ip") : log[q].rc = 0 /\ log[q].text = None
    /\ \E i \in InputsAt("cidr") : log[i].text = Cidr(<<172, 16, 0, 0>>, 12)
    /\ subnet = Dotted(<<172, 16, 0, 0>>)
    /\ HasRun("route_add")


\* the gateway argument of the add commands run or shown so far
IsAdd(e) == e.id \in {"route_add", "dry_add"}

AddsUse(gateway) ==
    \A i \in 1..Len(log) :
        IsAdd(log[i]) =>
            CommandText(log[i])
                = ExpectedCommands(subnet, mask, gateway, args.interface_index)[2]

\* the reconcile has begun
ReconcileReached ==
    \/ pc \in {"delete_existing_route", "add_static_route"}
    \/ \E i \in 1..Len(log) : IsCommand(log[i])

\* C13: with an explicit gateway the gateway lookup is never run and the
\* add uses that gateway; without one the lookup is run exactly once, after
\* the adapter index is settled and for that index, and the gateway prompt
\* appears only after a lookup that returned nothing or failed.
C13_GatewayResolution ==
    pc # "shell" =>
        /\ Cardinality(RunsAt("get_gateway")) <= 1
        /\ Cardinality(InputsAt("gateway")) <= 1
        /\ ~Falsy(GivenGateway) =>
              /\ RunsAt("get_gateway") = {}
              /\ InputsAt("gateway") = {}
              /\ AddsUse(GivenGateway)
        /\ \A g \in RunsAt("get_gateway") :
              /\ Falsy(GivenGateway)
              /\ args.interface_index # NoInt
              /\ log[g].cmd[4] = Str(args.interface_index[1])
              /\ \A i \in InputsAt("index") : i < g
              /\ (GivenIndex \in {None, Str(0)} => InputsAt("index") # {})
        /\ \A i \in InputsAt("gateway") :
              \E g \in RunsAt("get_gateway") : g < i /\ log[g].text = None
        /\ (ReconcileReached /\ Falsy(GivenGateway)) =>
              \E g \in RunsAt("get_gateway") :
                  IF log[g].text # None
                  THEN InputsAt("gateway") = {} /\ AddsUse(log[g].text)
                  ELSE \E i \in InputsAt("gateway") : AddsUse(log[i].text)

C13_Witness ==
    /\ pc = "exited"
    /\ GivenGateway = None
    /\ GivenIndex = None
    /\ \E g \in RunsAt("get_gateway") : log[g].text = NicGateway
    /\ \E i \in RunsAt("route_add") : log[i].cmd[6] = NicGateway /\ log[i].rc = 0


\* the index argument of the gateway lookups and add commands so far
IndexUsedIs(index) ==
    /\ \A g \in RunsAt("get_gateway") : log[g].cmd[4] = index
    /\ \A i \in RunsAt("route_add") : log[i].cmd[8] = index

\* the index resolution is over
IndexResolved ==
    \/ pc \in {"get_gateway_from_nic", "input_gateway"}
    \/ RunsAt("get_gateway") # {}
    \/ ReconcileReached

\* C14: the adapter listing and the index prompt happen exactly when no
\* --interface-index was given; with any index given, 0 included, neither
\* happens and that index is the one in the gateway lookup and in the add.
C14_IndexResolution ==
    pc # "shell" =>
        /\ GivenIndex # None =>
              /\ RunsAt("get_adapters") = {}
              /\ InputsAt("index") = {}
              /\ IndexUsedIs(GivenIndex)
        /\ (GivenIndex = None /\ IndexResolved) =>
              /\ Cardinality(RunsAt("get_adapters")) = 1
              /\ Cardinality(InputsAt("index")) = 1


(***************************************************************************)
(* Interrupts.                                                             *)
(***************************************************************************)
PromptBlocks == {"input_cidr", "input_index", "input_gateway"}

IsDiscovery(e) ==
    \/ e.ev = "input"
    \/ (e.ev = "run" /\ e.id \in {"wsl_ip", "get_adapters", "get_gateway"})

Cancelled(l) == \E i \in 1..Len(l) : l[i].id = "cancelled"

\* every prompt and every query of the log comes before its first route
\* delete / route add
DiscoveryFirst(l) ==
    \A i \in 1..Len(l), j \in 1..Len(l) :
        (IsDiscovery(l[i]) /\ IsMutation(l[j])) => i < j

\* the table an interrupted invocation may leave: as it was, the routes to
\* the subnet deleted and none added, or the new route installed
LeftByInterrupt(t) ==
    \/ t = start
    \/ t = RoutesElsewhere(start, subnet)
    \/ (RouteSpec \in t /\ RoutesElsewhere(t, subnet) = RoutesElsewhere(start, subnet))

\* C15: prompts and queries all come before the first route delete / route
\* add; Ctrl-C at a prompt ends the process with exit status 0 and the
\* cancellation message, no route delete or route add run and the table as
\* it was; Ctrl-C anywhere else leaves the table as it was, or with the old
\* route deleted and no new one, or with the new route installed.
C15_InterruptLeavesNoHalfRoute ==
    /\ [](DiscoveryFirst(log) /\ (pc \in PromptBlocks => Mutations(log) = <<>> /\ table = start))
    /\ [][(~Cancelled(log) /\ Cancelled(log')) =>
            /\ pc' = "exited"
            /\ exit_code' = 0
            /\ log' = Append(log, Printed("cancelled", <<>>))
            /\ table' = table
            /\ LeftByInterrupt(table)
            /\ (pc \in PromptBlocks => Mutations(log') = <<>> /\ table' = start)]_vars

\* Ctrl-C at the CIDR prompt, on a host that has a route to lose
C15_Witness ==
    /\ pc = "exited"
    /\ exit_code = 0
    /\ Cancelled(log)
    /\ HasPrint("no_guest_cidr")
    /\ ~HasInput("cidr")
    /\ OldRoute \in table
    /\ table = start


(***************************************************************************)
(* Routes to the subnet during one live reconcile.                         *)
(***************************************************************************)
\* a live invocation that knows its subnet, on a host that started with at
\* most one route to it
LiveFromAtMostOne ==
    /\ ~args.dry_run
    /\ subnet # None
    /\ Cardinality(RoutesTo(start, subnet)) <= 1

\* C16 as stated: from a table with at most one route to the subnet, a live
\* reconcile never has more than one route to it, whatever the delete met.
C16_AtMostOneRoute ==
    LiveFromAtMostOne => Cardinality(RoutesTo(table, subnet)) <= 1

\* C16 amended: from a table with at most one route to the subnet, a live
\* reconcile has at most one route to it as long as the delete returned 0;
\* when the delete did not return 0 and left the old route, the add is run
\* all the same, and if it returns 0 the table holds two routes to the
\* subnet, the old one and the new one, never more.
C16_AtMostOneUnlessDeleteFailed ==
    LiveFromAtMostOne =>
        LET n == Cardinality(RoutesTo(table, subnet))
            rcs == ReturnCodes(log)
        IN  /\ n <= 2
            /\ n = 2 =>
                  /\ Len(rcs) = 2 /\ rcs[1] # 0 /\ rcs[2] = 0
                  /\ RoutesTo(table, subnet) = RoutesTo(start, subnet) \cup {RouteSpec}
            /\ (Len(rcs) >= 1 /\ rcs[1] = 0) => n <= 1

C16_Witness ==
    /\ pc = "exited"
    /\ LiveFromAtMostOne
    /\ ReturnCodes(log) = <<1, 0>>
    /\ start = {OldRoute}
    /\ table = {OldRoute, RouteSpec}
    /\ RouteSpec # OldRoute


(***************************************************************************)
(* check_route_status on its own: main about to run the --status check,    *)
(* on tables whose lines hold the subnet text in other places than the     *)
(* destination of a route to that subnet.                                  *)
(***************************************************************************)
\* a route to 110.0.0.0, whose text ends in 10.0.0.0
LongerRoute == Route(Dotted(<<110, 0, 0, 0>>), Dotted(<<255, 0, 0, 0>>), NicGateway, Str(3))

\* a route to 172.16.0.0 with another mask than the guest subnet's
WiderRoute == Route(Dotted(<<172, 16, 0, 0>>), Dotted(<<255, 255, 0, 0>>), NicGateway, Str(3))

\* a route whose gateway column reads 10.0.0.0
ViaRoute == Route(Dotted(<<192, 168, 5, 0>>), Dotted(<<255, 255, 255, 0>>),
                  Dotted(<<10, 0, 0, 0>>), Str(7))

StatusRoutes == {OldRoute, OtherRoute, LongerRoute, WiderRoute, ViaRoute}

StatusCidrs ==
    {Cidr(<<172, 16, 5, 37>>, 12), Cidr(<<10, 0, 0, 0>>, 8), Cidr(<<192, 168, 5, 0>>, 24),
     Cidr(<<10, 1, 0, 0>>, 16)}

InitStatus ==
    /\ table \in SUBSET StatusRoutes
    /\ run = 1
    /\ pc = "check_route_status"
    /\ \E c \in StatusCidrs :
          /\ args = [NoArgs EXCEPT !.cidr = c, !.status = TRUE]
          /\ subnet = parse_cidr(c).subnet
          /\ mask = parse_cidr(c).mask
    /\ log = <<Invoked(args)>>
    /\ exit_code = -1
    /\ start = table
    /\ prev = NoPrev

NextStatus == check_route_status

SpecStatus == InitStatus /\ [][NextStatus]_vars

\* needle occurs in line at some offset, character by character
IsInfix(needle, line) ==
    \E k \in 0..(Len(line) - Len(needle)) :
        \A m \in 1..Len(needle) : line[k + m] = needle[m]

\* C17: the status check returns true exactly when the route print
\* succeeded and some line of it contains the subnet text somewhere,
\* whatever the line's destination, mask or gateway; it returns false when
\* no line contains it and when the route print failed; it runs no route
\* delete and no route add.
C17_ExistsIsSubstringMatch ==
    pc = "exited" =>
        /\ Cardinality(RunsAt("route_print")) = 1
        /\ \A q \in RunsAt("route_print") :
              /\ log[q].text \in {PyTrue, PyFalse}
              /\ log[q].text = PyTrue <=>
                    (log[q].rc = 0 /\ \E l \in RouteLines(start) : IsInfix(subnet, l))
              /\ (log[q].text = PyTrue => HasPrint("route_exists"))
              /\ (log[q].text = PyFalse =>
                    HasPrint(IF log[q].rc = 0 THEN "no_route" ELSE "route_query_failed"))
        /\ Mutations(log) = <<>>
        /\ table = start

\* found, although the table holds no route to the subnet
C17_Witness ==
    /\ pc = "exited"
    /\ subnet = Dotted(<<10, 0, 0, 0>>)
    /\ table = {LongerRoute}
    /\ \E q \in RunsAt("route_print") : log[q].text = PyTrue
    /\ RoutesTo(table, subnet) = {}


(***************************************************************************)
(* Reports of failed mutations.                                            *)
(***************************************************************************)
\* the report printed right after the command at position i of the log
ReportAfter(i) == IF Len(log) > i THEN log[i + 1] ELSE Printed("nothing", <<>>)

\* C18 as stated: a failed route delete is followed by a report naming the
\* subnet, a failed route add by a report naming subnet, mask, gateway and
\* adapter index, and neither report is the one of the success.
C18_FailuresIdentifyTheRoute ==
    /\ \A i \in RunsAt("route_delete") :
          log[i].rc # 0 =>
              /\ ReportAfter(i).ev = "print" /\ ReportAfter(i).id # "deleted"
              /\ IsInfix(subnet, ReportAfter(i).text)
    /\ \A i \in RunsAt("route_add") :
          log[i].rc # 0 =>
              /\ ReportAfter(i).ev = "print" /\ ReportAfter(i).id # "added"
              /\ IsInfix(subnet, ReportAfter(i).text)
              /\ IsInfix(mask, ReportAfter(i).text)
              /\ IsInfix(args.gateway, ReportAfter(i).text)
              /\ IsInfix(Str(args.interface_index[1]), ReportAfter(i).text)

\* C18 amended: every route delete and route add that was run is followed
\* at once by a report, and the report of a failure is not the report of a
\* success; the report of a failed delete names the subnet, the report of a
\* failed add is the fixed "Failed to add static route" message and names
\* no field of the route.
C18_FailuresAreReported ==
    /\ \A i \in RunsAt("route_delete") :
          ReportAfter(i) =
              Printed(IF log[i].rc = 0 THEN "deleted" ELSE "not_found_or_failed", subnet)
    /\ \A i \in RunsAt("route_add") :
          /\ ReportAfter(i).ev = "print"
          /\ ReportAfter(i).id = (IF log[i].rc = 0 THEN "added" ELSE "add_failed")
          /\ ReportAfter(i).text = <<>>

C18_Witness ==
    /\ pc = "exited"
    /\ ~args.dry_run
    /\ ReturnCodes(log) = <<1, 1>>
    /\ HasPrint("not_found_or_failed")
    /\ HasPrint("add_failed")
    /\ OldRoute \in table
    /\ IsIPv4(args.gateway)

=============================================================================
